---- MODULE Spec2Model ----
(***************************************************************************)
(* JWT banking API: the credential issuer (POST /login), the token gate    *)
(* (authMiddleware) and the ledger (GET /balance, POST /deposit,           *)
(* POST /withdraw) over the single in-memory account of john_doe.          *)
(*                                                                         *)
(* Spec     : requests are received and handled one after the other.       *)
(* SpecConc : requests are received into a bounded set of in-flight slots  *)
(*            and dispatched in any order; a dispatch runs the middleware  *)
(*            and the route handler to completion, as the synchronous      *)
(*            handlers do on Node's single-threaded event loop.            *)
(***************************************************************************)
EXTENDS Integers, Sequences, FiniteSets

VARIABLES
    balance,    \* userDatabase['john_doe'].balance, a JS Number
    now,        \* the clock jwt.sign / jwt.verify read
    issued,     \* the tokens successful logins have returned (held by clients)
    inflight,   \* SpecConc: received requests whose handler has not run yet
    req,        \* history: the request handled last in this clock tick, and the balance it met
    res         \* history: the response it got

vars == <<balance, now, issued, inflight, req, res>>

-----------------------------------------------------------------------------
(* Bounds of the model *)

MaxTime == 2          \* the clock runs 0..MaxTime
MaxTokens == 1        \* tokens the Issuer hands out in one run
MaxBalance == 6000    \* deposits are explored while the finite balance stays <= MaxBalance
MaxHuge == 1          \* ... and while it holds at most MaxHuge multiples of 2^1000
MaxInFlight == 2      \* SpecConc: requests in flight at once

\* process.env.JWT_EXPIRES_IN, in clock ticks (the source's default is '24h')
JWT_EXPIRES_IN == 2

-----------------------------------------------------------------------------
(* JS Numbers.  A finite value is hi * 2^1000 + lo with lo a small integer. *)
(* IEEE-754 doubles hold hi * 2^1000 exactly and round hi * 2^1000 + lo     *)
(* (hi # 0, |lo| < 2^31) to hi * 2^1000, since half an ulp there is 2^947.  *)

Num(n) == [kind |-> "fin", hi |-> 0, lo |-> n]
Huge == [kind |-> "fin", hi |-> 1, lo |-> 0]
Infinity == [kind |-> "inf", hi |-> 0, lo |-> 0]
NegInfinity == [kind |-> "-inf", hi |-> 0, lo |-> 0]
NaN == [kind |-> "nan", hi |-> 0, lo |-> 0]
None == [kind |-> "none", hi |-> 0, lo |-> 0]      \* a field that is not there

Round(h, l) == [kind |-> "fin", hi |-> h, lo |-> IF h = 0 THEN l ELSE 0]

Neg(x) ==
    CASE x.kind = "fin" -> [kind |-> "fin", hi |-> 0 - x.hi, lo |-> 0 - x.lo]
      [] x.kind = "inf" -> NegInfinity
      [] x.kind = "-inf" -> Infinity
      [] OTHER -> NaN

Add(x, y) ==
    CASE x.kind = "nan" \/ y.kind = "nan" -> NaN
      [] x.kind = "fin" /\ y.kind = "fin" -> Round(x.hi + y.hi, x.lo + y.lo)
      [] x.kind = "fin" -> y
      [] y.kind = "fin" -> x
      [] x.kind = y.kind -> x
      [] OTHER -> NaN                              \* Infinity + -Infinity

Sub(x, y) == Add(x, Neg(y))

Rank(x) == CASE x.kind = "-inf" -> 0 [] x.kind = "fin" -> 1 [] OTHER -> 2

\* x < y as JS evaluates it: false when either side is NaN
Lt(x, y) ==
    /\ x.kind # "nan" /\ y.kind # "nan"
    /\ \/ Rank(x) < Rank(y)
       \/ /\ x.kind = "fin" /\ y.kind = "fin"
          /\ \/ x.hi < y.hi
             \/ x.hi = y.hi /\ x.lo < y.lo

Leq(x, y) == x.kind # "nan" /\ y.kind # "nan" /\ ~Lt(y, x)

isNaN(x) == x.kind = "nan"

IsFinite(x) == x.kind = "fin"

-----------------------------------------------------------------------------
(* Strings are sequences of characters.  HugeLiteral stands for the decimal *)
(* numeral of 2^1000 (302 digits), kept as one token.                       *)

Digits == {"0", "1", "2", "3", "4", "5", "6", "7", "8", "9"}
HugeLiteral == "<2^1000>"
InfinityStr == <<"I", "n", "f", "i", "n", "i", "t", "y">>

DigitVal(c) ==
    CASE c = "0" -> 0 [] c = "1" -> 1 [] c = "2" -> 2 [] c = "3" -> 3
      [] c = "4" -> 4 [] c = "5" -> 5 [] c = "6" -> 6 [] c = "7" -> 7
      [] c = "8" -> 8 [] c = "9" -> 9

DigitChar(d) == <<"0", "1", "2", "3", "4", "5", "6", "7", "8", "9">>[d + 1]

RECURSIVE NatToString(_)
NatToString(n) ==
    IF n < 10 THEN <<DigitChar(n)>>
    ELSE Append(NatToString(n \div 10), DigitChar(n % 10))

\* Number::toString
NumberToString(x) ==
    CASE x.kind = "nan" -> <<"N", "a", "N">>
      [] x.kind = "inf" -> InfinityStr
      [] x.kind = "-inf" -> <<"-">> \o InfinityStr
      [] x.kind = "fin" /\ x.hi = 1 -> <<HugeLiteral>>
      [] x.kind = "fin" /\ x.hi = -1 -> <<"-", HugeLiteral>>
      [] x.kind = "fin" /\ x.hi = 0 /\ x.lo >= 0 -> NatToString(x.lo)
      [] x.kind = "fin" /\ x.hi = 0 /\ x.lo < 0 -> <<"-">> \o NatToString(0 - x.lo)

StartsWith(s, p) == Len(s) >= Len(p) /\ SubSeq(s, 1, Len(p)) = p

RECURSIVE TrimStart(_)
TrimStart(s) == IF s # <<>> /\ Head(s) = " " THEN TrimStart(Tail(s)) ELSE s

RECURSIVE DigitsPrefix(_)
DigitsPrefix(s) ==
    IF s = <<>> \/ Head(s) \notin Digits THEN <<>>
    ELSE <<Head(s)>> \o DigitsPrefix(Tail(s))

RECURSIVE DigitsValue(_, _)
DigitsValue(s, acc) ==
    IF s = <<>> THEN acc ELSE DigitsValue(Tail(s), 10 * acc + DigitVal(Head(s)))

\* The value of the longest numeric prefix of an unsigned string
\* (the alphabet of the model has no '.' and no exponent).
UnsignedPrefix(s) ==
    IF StartsWith(s, InfinityStr) THEN Infinity
    ELSE IF s # <<>> /\ Head(s) = HugeLiteral THEN Huge
    ELSE IF DigitsPrefix(s) = <<>> THEN NaN
    ELSE Num(DigitsValue(DigitsPrefix(s), 0))

\* parseFloat applied to a string: leading white space is skipped, an
\* optional sign is read, and whatever follows the numeric prefix is ignored.
StringToNumber(s) ==
    LET t == TrimStart(s) IN
    IF t # <<>> /\ Head(t) = "-" THEN Neg(UnsignedPrefix(Tail(t)))
    ELSE IF t # <<>> /\ Head(t) = "+" THEN UnsignedPrefix(Tail(t))
    ELSE UnsignedPrefix(t)

-----------------------------------------------------------------------------
(* JSON body values *)

Undefined == [type |-> "undefined", num |-> None, str |-> <<>>]
Null == [type |-> "null", num |-> None, str |-> <<>>]
JNum(x) == [type |-> "number", num |-> x, str |-> <<>>]
JStr(s) == [type |-> "string", num |-> None, str |-> s]

\* ToString of a body value
BodyToString(v) ==
    CASE v.type = "string" -> v.str
      [] v.type = "number" -> NumberToString(v.num)
      [] v.type = "null" -> <<"n", "u", "l", "l">>
      [] OTHER -> <<"u", "n", "d", "e", "f", "i", "n", "e", "d">>


AmountInputs ==
    { Undefined, Null,
      JNum(Num(-500)), JNum(Num(0)), JNum(Num(500)), JNum(Num(1000)), JNum(Num(50000)),
      JNum(Huge),
      JStr(<<"a", "b", "c">>),
      JStr(<<"5", "0", "0", "a", "b", "c">>),
      JStr(InfinityStr) }

ConcAmounts == {JNum(Num(1000)), JNum(Num(5000))}

\* parseFloat(amount), worked out once for every amount a request can carry
ParsedAmounts == [v \in AmountInputs \cup ConcAmounts |-> StringToNumber(BodyToString(v))]
parseFloat(v) == ParsedAmounts[v]

-----------------------------------------------------------------------------
(* Configuration and the principal record *)

JWT_SECRET == "your-secret-key-change-this-in-production"
OtherSecret == "some-other-key"
VALID_USERNAME == "john_doe"
VALID_PASSWORD == "password123"
InitialBalance == 5000

\* Mutant of UserFound: the account is looked up under another key
Mut_UserFound_WrongKey(username) == username = "john"

\* userDatabase[username] is an account record
UserFound(username) == username = "john_doe"

-----------------------------------------------------------------------------
(* Tokens and Authorization headers.  A header is the list of the          *)
(* space-free segments that authHeader.split(' ') yields; a segment is a    *)
(* plain word or a JWT (its payload and the key that signed it).            *)

Word(w) ==
    [word |-> w, jwt |-> FALSE, username |-> "", iat |-> 0, nbf |-> -1, exp |-> 0, key |-> ""]
\* nbf = -1: the payload has no nbf claim
JwtNbf(u, i, n, e, k) ==
    [word |-> "", jwt |-> TRUE, username |-> u, iat |-> i, nbf |-> n, exp |-> e, key |-> k]
Jwt(u, i, e, k) == JwtNbf(u, i, -1, e, k)
NoToken == Word("")

NoHeader == [present |-> FALSE, parts |-> <<>>]
Hdr(parts) == [present |-> TRUE, parts |-> parts]
Bearer(tok) == Hdr(<<Word("Bearer"), tok>>)

\* jwt.sign({ username }, secret, { expiresIn }) at clock t
JwtSign(username, secret, expiresIn, t) == Jwt(username, t, t + expiresIn, secret)

\* jwt.verify(token, secret) at clock t: the decoded payload, or the error thrown
\* (malformed, then signature, then not-before: nbf > clock is not active,
\* then expiry: clock >= exp is expired).
JwtVerify(token, secret, t) ==
    IF ~token.jwt THEN [ok |-> FALSE, name |-> "JsonWebTokenError", username |-> "", expiredAt |-> -1]
    ELSE IF token.key # secret
         THEN [ok |-> FALSE, name |-> "JsonWebTokenError", username |-> "", expiredAt |-> -1]
    ELSE IF token.nbf > t
         THEN [ok |-> FALSE, name |-> "NotBeforeError", username |-> "", expiredAt |-> -1]
    ELSE IF t >= token.exp
         THEN [ok |-> FALSE, name |-> "TokenExpiredError", username |-> "", expiredAt |-> token.exp]
    ELSE [ok |-> TRUE, name |-> "", username |-> token.username, expiredAt |-> -1]

\* Tokens a client can build without the Issuer: garbage, tokens signed with
\* another key (fresh or expired claims), and those a holder of the shared
\* secret mints: for an identity that has no account, or not active yet.
Garbage == Word("invalid-token-here")
ForgedFresh == Jwt("john_doe", 0, MaxTime + 1, OtherSecret)
ForgedExpired == Jwt("john_doe", 0, 0, OtherSecret)
MintedNoAccount == Jwt("mallory", 0, MaxTime + 1, JWT_SECRET)
MintedNotYetActive == JwtNbf("john_doe", 0, MaxTime + 1, MaxTime + 2, JWT_SECRET)

\* Headers whose token carries the shared secret's signature
SignedHeaderInputs(iss) == {Bearer(MintedNoAccount)} \cup {Bearer(tok) : tok \in iss}

HeaderInputs(iss) ==
    { NoHeader,
      Hdr(<<Word("")>>),
      Hdr(<<Word("Bearer")>>),
      Hdr(<<Word("Basic"), Garbage>>),
      Hdr(<<Word("Bearer"), Word(""), Garbage>>),
      Bearer(Garbage), Bearer(ForgedFresh), Bearer(ForgedExpired),
      Bearer(MintedNotYetActive) }
    \cup SignedHeaderInputs(iss)

\* Every header with one well-formed amount, and every amount under the
\* headers that carry a signed token.
LedgerInputs(iss) ==
    (HeaderInputs(iss) \X {JNum(Num(500))}) \cup (SignedHeaderInputs(iss) \X AmountInputs)

-----------------------------------------------------------------------------
(* Responses *)

Response(status, error) ==
    [ status |-> status, error |-> error,
      next |-> FALSE,             \* the gate forwarded to the route handler
      user |-> "",                \* req.user.username the handler ran with
      balance |-> None, currentBalance |-> None,
      token |-> NoToken, expiredAt |-> -1 ]

NoResponse == Response(0, "")

-----------------------------------------------------------------------------
(* The token gate: src/middleware/authMiddleware.js *)

\* !authHeader
HeaderMissing(authHeader) == ~authHeader.present \/ authHeader.parts = <<Word("")>>

\* Mutant of BadFormat: the scheme is not looked at
Mut_BadFormat_LengthOnly(parts) == Len(parts) # 2

\* parts.length !== 2 || parts[0] !== 'Bearer'
BadFormat(parts) == Len(parts) # 2 \/ parts[1] # Word("Bearer")

\* Mutants of OnVerify: an expired token is let through; the error name is
\* never matched, so every failure gets the generic answer; the expiry error
\* is taken for the error class it extends.
Mut_OnVerify_ExpiredAsInvalid(v) ==
    IF v.ok THEN [Response(0, "") EXCEPT !.next = TRUE, !.user = v.username]
    ELSE IF v.name \in {"JsonWebTokenError", "TokenExpiredError"}
         THEN Response(401, "Invalid token")
    ELSE Response(401, "Token verification failed")
Mut_OnVerify_ExpiredPasses(v) ==
    IF v.ok \/ v.name = "TokenExpiredError"
    THEN [Response(0, "") EXCEPT !.next = TRUE, !.user = VALID_USERNAME]
    ELSE IF v.name = "JsonWebTokenError" THEN Response(401, "Invalid token")
    ELSE Response(401, "Token verification failed")
Mut_OnVerify_GenericOnly(v) ==
    IF v.ok THEN [Response(0, "") EXCEPT !.next = TRUE, !.user = v.username]
    ELSE Response(401, "Token verification failed")

\* Mutant of OnVerify: the expired-token branch answers and then falls
\* through to next().
Mut_OnVerify_RespondAndForward(v) ==
    IF v.ok THEN [Response(0, "") EXCEPT !.next = TRUE, !.user = v.username]
    ELSE IF v.name = "TokenExpiredError"
         THEN [Response(401, "Token expired") EXCEPT !.expiredAt = v.expiredAt, !.next = TRUE]
    ELSE IF v.name = "JsonWebTokenError" THEN Response(401, "Invalid token")
    ELSE Response(401, "Token verification failed")

\* the try / catch around jwt.verify
OnVerify(v) ==
    IF v.ok THEN [Response(0, "") EXCEPT !.next = TRUE, !.user = v.username]
    ELSE IF v.name = "TokenExpiredError"
         THEN [Response(401, "Token expired") EXCEPT !.expiredAt = v.expiredAt]
    ELSE IF v.name = "JsonWebTokenError" THEN Response(401, "Invalid token")
    ELSE Response(401, "Token verification failed")

\* Mutant of authMiddleware: the token is decoded, not verified.
Mut_authMiddleware_DecodeOnly(authHeader, t) ==
    IF HeaderMissing(authHeader) THEN Response(401, "No token provided")
    ELSE IF BadFormat(authHeader.parts) THEN Response(401, "Invalid token format")
    ELSE IF authHeader.parts[2].jwt
         THEN [Response(0, "") EXCEPT !.next = TRUE, !.user = authHeader.parts[2].username]
    ELSE Response(401, "Invalid token")

\* Mutant of authMiddleware: tokens are refused right after a failed login.
Mut_authMiddleware_Lockout(authHeader, t) ==
    IF HeaderMissing(authHeader) THEN Response(401, "No token provided")
    ELSE IF BadFormat(authHeader.parts) THEN Response(401, "Invalid token format")
    ELSE IF req.route = "login" /\ res.status = 401 THEN Response(401, "Invalid token")
    ELSE OnVerify(JwtVerify(authHeader.parts[2], JWT_SECRET, t))

authMiddleware(authHeader, t) ==
    IF HeaderMissing(authHeader) THEN Response(401, "No token provided")
    ELSE IF BadFormat(authHeader.parts) THEN Response(401, "Invalid token format")
    ELSE OnVerify(JwtVerify(authHeader.parts[2], JWT_SECRET, t))

-----------------------------------------------------------------------------
(* Requests *)

Absent == [def |-> FALSE, s |-> ""]
Str(s) == [def |-> TRUE, s |-> s]

Request(route, header, amount, username, password) ==
    [ route |-> route, header |-> header, amount |-> amount,
      username |-> username, password |-> password,
      before |-> None ]

NoRequest == Request("none", NoHeader, Undefined, Absent, Absent)

LoginRequest(u, p) == Request("login", NoHeader, Undefined, u, p)
BalanceRequest(h) == Request("balance", h, Undefined, Absent, Absent)
DepositRequest(h, a) == Request("deposit", h, a, Absent, Absent)
WithdrawRequest(h, a) == Request("withdraw", h, a, Absent, Absent)
UnmatchedRequest == Request("unmatched", NoHeader, Undefined, Absent, Absent)

UsernameInputs == {Absent, Str(""), Str("john_doe"), Str("mallory")}
PasswordInputs == {Absent, Str(""), Str("password123"), Str("wrong")}

-----------------------------------------------------------------------------
(* The credential issuer: POST /login *)

\* !username, !password
FieldMissing(f) == ~f.def \/ f.s = ""

\* Mutant of CredentialsMismatch: && written for ||
Mut_CredentialsMismatch_And(username, password) ==
    /\ ~(username.def /\ username.s = VALID_USERNAME)
    /\ ~(password.def /\ password.s = VALID_PASSWORD)

\* username !== VALID_USERNAME || password !== VALID_PASSWORD
CredentialsMismatch(username, password) ==
    \/ ~(username.def /\ username.s = VALID_USERNAME)
    \/ ~(password.def /\ password.s = VALID_PASSWORD)

\* Mutant of login: an unknown username gets an answer of its own
Mut_login_LeaksUser(username, password, t) ==
    IF FieldMissing(username) \/ FieldMissing(password)
    THEN Response(400, "Username and password are required")
    ELSE IF username.s # VALID_USERNAME THEN Response(404, "User not found")
    ELSE IF CredentialsMismatch(username, password)
    THEN Response(401, "Invalid credentials")
    ELSE [Response(200, "") EXCEPT
            !.token = JwtSign(username.s, JWT_SECRET, JWT_EXPIRES_IN, t)]

login(username, password, t) ==
    IF FieldMissing(username) \/ FieldMissing(password)
    THEN Response(400, "Username and password are required")
    ELSE IF CredentialsMismatch(username, password)
    THEN Response(401, "Invalid credentials")
    ELSE [Response(200, "") EXCEPT
            !.token = JwtSign(username.s, JWT_SECRET, JWT_EXPIRES_IN, t)]

-----------------------------------------------------------------------------
(* The ledger: GET /balance, POST /deposit, POST /withdraw.  A handler      *)
(* yields its response and the balance it leaves in userDatabase.           *)

Out(r, b) == [res |-> r, balance |-> b]

getBalance(username, bal) ==
    IF ~UserFound(username) THEN Out(Response(404, "User not found"), bal)
    ELSE Out([Response(200, "") EXCEPT !.balance = bal], bal)

\* amount === undefined || amount === null
AmountMissing(amount) == amount.type \in {"undefined", "null"}

\* numAmount <= 0
NonPositive(numAmount) == Leq(numAmount, Num(0))

\* Mutants of InsufficientBalance: the check left out; the check made against
\* the balance read at start-up instead of the current one.
Mut_InsufficientBalance_Never(bal, numAmount) == FALSE
Mut_InsufficientBalance_Stale(bal, numAmount) == Lt(Num(InitialBalance), numAmount)

\* user.balance < numAmount
InsufficientBalance(bal, numAmount) == Lt(bal, numAmount)

deposit(username, amount, bal) ==
    IF ~UserFound(username) THEN Out(Response(404, "User not found"), bal)
    ELSE IF AmountMissing(amount) THEN Out(Response(400, "Amount is required"), bal)
    ELSE LET numAmount == parseFloat(amount) IN
         IF isNaN(numAmount) THEN Out(Response(400, "Amount must be a valid number"), bal)
         ELSE IF NonPositive(numAmount)
              THEN Out(Response(400, "Amount must be greater than 0"), bal)
         ELSE LET updated == Add(bal, numAmount) IN
              Out([Response(200, "") EXCEPT !.balance = updated], updated)

\* Mutant of withdraw: the amount is deducted before the balance is checked.
Mut_withdraw_DeductFirst(username, amount, bal) ==
    IF ~UserFound(username) THEN Out(Response(404, "User not found"), bal)
    ELSE IF AmountMissing(amount) THEN Out(Response(400, "Amount is required"), bal)
    ELSE LET numAmount == parseFloat(amount) IN
         IF isNaN(numAmount) THEN Out(Response(400, "Amount must be a valid number"), bal)
         ELSE IF NonPositive(numAmount)
              THEN Out(Response(400, "Amount must be greater than 0"), bal)
         ELSE LET updated == Sub(bal, numAmount) IN
              IF Lt(updated, Num(0))
              THEN Out([Response(400, "Insufficient balance") EXCEPT !.currentBalance = bal],
                       updated)
              ELSE Out([Response(200, "") EXCEPT !.balance = updated], updated)

withdraw(username, amount, bal) ==
    IF ~UserFound(username) THEN Out(Response(404, "User not found"), bal)
    ELSE IF AmountMissing(amount) THEN Out(Response(400, "Amount is required"), bal)
    ELSE LET numAmount == parseFloat(amount) IN
         IF isNaN(numAmount) THEN Out(Response(400, "Amount must be a valid number"), bal)
         ELSE IF NonPositive(numAmount)
              THEN Out(Response(400, "Amount must be greater than 0"), bal)
         ELSE IF InsufficientBalance(bal, numAmount)
              THEN Out([Response(400, "Insufficient balance") EXCEPT !.currentBalance = bal], bal)
         ELSE LET updated == Sub(bal, numAmount) IN
              Out([Response(200, "") EXCEPT !.balance = updated], updated)

\* app.get('/balance', authMiddleware, handler) and its two siblings: the
\* handler runs only when the middleware called next(), with req.user set.
Protected(r, bal, t) ==
    LET gate == authMiddleware(r.header, t) IN
    IF ~gate.next THEN Out(gate, bal)
    ELSE LET o == CASE r.route = "balance" -> getBalance(gate.user, bal)
                    [] r.route = "deposit" -> deposit(gate.user, r.amount, bal)
                    [] r.route = "withdraw" -> withdraw(gate.user, r.amount, bal)
         IN Out([o.res EXCEPT !.next = TRUE, !.user = gate.user], o.balance)

\* Express routing of one request at clock t against balance bal
Handle(r, bal, t) ==
    CASE r.route = "login" -> Out(login(r.username, r.password, t), bal)
      [] r.route \in {"balance", "deposit", "withdraw"} -> Protected(r, bal, t)
      [] OTHER -> Out(Response(404, "Endpoint not found"), bal)

-----------------------------------------------------------------------------
(* State machine *)

WithinBounds(b) ==
    b.kind = "fin" => /\ b.lo <= MaxBalance
                      /\ b.hi <= MaxHuge

Init ==
    /\ balance = Num(InitialBalance)
    /\ now = 0
    /\ issued = {}
    /\ inflight = [i \in 1..MaxInFlight |-> NoRequest]
    /\ req = NoRequest
    /\ res = NoResponse

\* One request runs through routing, middleware and handler.
Served(r) ==
    LET out == Handle(r, balance, now) IN
    /\ WithinBounds(out.balance)
    /\ balance' = out.balance
    /\ issued' = IF out.res.token # NoToken THEN issued \cup {out.res.token} ELSE issued
    /\ req' = [r EXCEPT !.before = balance]
    /\ res' = out.res
    /\ now' = now

Login ==
    \E u \in UsernameInputs, p \in PasswordInputs :
        /\ Served(LoginRequest(u, p))
        /\ Cardinality(issued') <= MaxTokens
        /\ UNCHANGED inflight

GetBalance ==
    \E h \in HeaderInputs(issued) :
        Served(BalanceRequest(h)) /\ UNCHANGED inflight

Deposit ==
    \E in \in LedgerInputs(issued) :
        Served(DepositRequest(in[1], in[2])) /\ UNCHANGED inflight

Withdraw ==
    \E in \in LedgerInputs(issued) :
        Served(WithdrawRequest(in[1], in[2])) /\ UNCHANGED inflight

Unmatched == Served(UnmatchedRequest) /\ UNCHANGED inflight

Tick ==
    /\ now < MaxTime
    /\ now' = now + 1
    /\ req' = NoRequest
    /\ res' = NoResponse
    /\ UNCHANGED <<balance, issued, inflight>>

Next == Login \/ GetBalance \/ Deposit \/ Withdraw \/ Unmatched \/ Tick

Spec == Init /\ [][Next]_vars

-----------------------------------------------------------------------------
(* Concurrent requests: received, then dispatched in any order *)

ConcRequests(iss) ==
    {LoginRequest(Str("john_doe"), Str("password123"))}
    \cup {BalanceRequest(Bearer(tok)) : tok \in iss}
    \cup {DepositRequest(Bearer(tok), a) : tok \in iss, a \in ConcAmounts}
    \cup {WithdrawRequest(Bearer(tok), a) : tok \in iss, a \in ConcAmounts}

\* The deposits among the first n requests in flight add up to this much
RECURSIVE DepositsInFlight(_, _)
DepositsInFlight(fl, n) ==
    IF n = 0 THEN 0
    ELSE (IF fl[n].route = "deposit" THEN fl[n].amount.num.lo ELSE 0)
         + DepositsInFlight(fl, n - 1)

\* A request arrives; deposits are taken in while the balance, with every
\* deposit in flight applied, stays <= MaxBalance.
Receive ==
    \E i \in 1..MaxInFlight, r \in ConcRequests(issued) :
        /\ inflight[i] = NoRequest
        /\ inflight' = [inflight EXCEPT ![i] = r]
        /\ balance.lo + DepositsInFlight(inflight', MaxInFlight) <= MaxBalance
        /\ UNCHANGED <<balance, now, issued, req, res>>

\* Mutant of DispatchSlot: a withdraw waits until the balance covers it
Mut_DispatchSlot_Blocking(i) ==
    /\ inflight[i] # NoRequest
    /\ inflight[i].route = "withdraw"
          => ~InsufficientBalance(balance, inflight[i].amount.num)
    /\ Served(inflight[i])
    /\ inflight' = [inflight EXCEPT ![i] = NoRequest]

\* The event loop takes the request in slot i and runs its middleware and
\* handler to completion: they are synchronous and await nothing.
DispatchSlot(i) ==
    /\ inflight[i] # NoRequest
    /\ Served(inflight[i])
    /\ inflight' = [inflight EXCEPT ![i] = NoRequest]

Dispatch == \E i \in 1..MaxInFlight : DispatchSlot(i)

NextConc == Receive \/ Dispatch

SpecConc == Init /\ [][NextConc]_vars

\* The event loop gets to every request it has received
SpecConcFair == SpecConc /\ \A i \in 1..MaxInFlight : WF_vars(DispatchSlot(i))

-----------------------------------------------------------------------------
(* Vocabulary of the properties *)

ProtectedRoutes == {"balance", "deposit", "withdraw"}
LedgerWrites == {"deposit", "withdraw"}

\* The header is "Bearer <jwt>"
WellShaped(h) ==
    /\ h.present
    /\ Len(h.parts) = 2
    /\ h.parts[1] = Word("Bearer")
    /\ h.parts[2].jwt

\* The header's token is signed with the shared secret and expires after t
TokenValid(h, t) ==
    /\ WellShaped(h)
    /\ h.parts[2].key = JWT_SECRET
    /\ t < h.parts[2].exp

\* The last request reached its ledger handler with an identity that has an account
OnAccount == req.route \in LedgerWrites /\ res.next /\ UserFound(res.user)

\* A JSON number, or a string that is a decimal numeral or Infinity, with an optional sign
IsNumeral(s) ==
    LET u == IF s # <<>> /\ Head(s) \in {"-", "+"} THEN Tail(s) ELSE s IN
    \/ u = InfinityStr
    \/ u = <<HugeLiteral>>
    \/ u # <<>> /\ \A i \in 1..Len(u) : u[i] \in Digits
Numeric(a) == a.type = "number" \/ (a.type = "string" /\ IsNumeral(a.str))

\* The value of a numeric amount
ValueOf(a) == IF a.type = "number" THEN a.num ELSE StringToNumber(a.str)

-----------------------------------------------------------------------------
(* C1: in every reachable state the account balance satisfies balance >= 0. *)
(* Stated as the claim has it; the code breaks it (see C8).                 *)
C1_BalanceNonNegative == Leq(Num(0), balance)

-----------------------------------------------------------------------------
(* C2: no protected operation runs unless the Authorization header passed   *)
(* every gate step: the handler runs, and the balance is read or changed,   *)
(* only in a request whose token is signed with the shared secret and has   *)
(* its expiry in the future at verification time.                           *)
C2_GateGuardsLedger ==
    /\ (req.route \in ProtectedRoutes /\ res.next) => TokenValid(req.header, now)
    /\ (res.balance # None \/ res.currentBalance # None \/ res.user # "")
           => (req.route \in ProtectedRoutes /\ TokenValid(req.header, now))
    /\ (req # NoRequest /\ balance # req.before)
           => (req.route \in ProtectedRoutes /\ TokenValid(req.header, now))

C2_Witness ==
    /\ req.route = "withdraw" /\ res.next /\ res.status = 200
    /\ balance # req.before
    /\ TokenValid(req.header, now)

-----------------------------------------------------------------------------
(* C3: a withdraw of a valid positive amount greater than the current       *)
(* balance fails with 'Insufficient balance' (400), reports the current     *)
(* balance, and leaves the balance as it was before the request.            *)
C3_Overdraw ==
    /\ req.route = "withdraw" /\ res.next /\ UserFound(res.user)
    /\ req.amount.type = "number"
    /\ Lt(Num(0), req.amount.num)
    /\ Lt(req.before, req.amount.num)

C3_InsufficientFunds ==
    C3_Overdraw =>
        /\ res.status = 400
        /\ res.error = "Insufficient balance"
        /\ res.currentBalance = req.before
        /\ res.balance = None
        /\ balance = req.before

C3_Witness == C3_Overdraw /\ res.status = 400 /\ balance = req.before

-----------------------------------------------------------------------------
(* C4 (SpecConc): with several deposits and withdrawals in flight, every    *)
(* dispatch checks and updates the balance of the state it runs in, in one  *)
(* step: a withdraw succeeds exactly when the amount is at most the balance *)
(* at that moment, an update adds or subtracts exactly its amount, nothing  *)
(* else touches the balance or the other requests in flight, and the        *)
(* balance never goes below zero.                                           *)
DispatchedAt(i) == inflight[i] # NoRequest /\ inflight'[i] = NoRequest

C4_AtomicCheckAndUpdate ==
    [][ /\ (balance' # balance) => \E i \in 1..MaxInFlight : DispatchedAt(i)
        /\ \A i \in 1..MaxInFlight :
              DispatchedAt(i) =>
                LET r == inflight[i]
                    a == ValueOf(r.amount)
                IN  /\ \A j \in 1..MaxInFlight : j # i => inflight'[j] = inflight[j]
                    /\ r.route = "deposit" =>
                          /\ res'.status = 200
                          /\ balance' = Add(balance, a)
                    /\ (r.route = "withdraw" /\ Leq(a, balance)) =>
                          /\ res'.status = 200
                          /\ balance' = Sub(balance, a)
                    /\ (r.route = "withdraw" /\ Lt(balance, a)) =>
                          /\ res'.status = 400
                          /\ balance' = balance
                    /\ r.route = "login" => balance' = balance
                    /\ Leq(Num(0), balance')
      ]_vars

\* A withdraw has gone through while another withdraw in flight, which the
\* balance before it would have covered, no longer fits the balance.
C4_Witness ==
    /\ req.route = "withdraw" /\ res.status = 200
    /\ \E i \in 1..MaxInFlight :
          /\ inflight[i].route = "withdraw"
          /\ Leq(ValueOf(inflight[i].amount), req.before)
          /\ Lt(balance, ValueOf(inflight[i].amount))

-----------------------------------------------------------------------------
(* C5: a token issued with expiry t is accepted by the gate at every        *)
(* verification time < t and rejected ('Token expired', with the expiry) at *)
(* every time >= t.                                                         *)
C5_ExpiryBoundary ==
    /\ \A tok \in issued :
          /\ tok.exp = tok.iat + JWT_EXPIRES_IN
          /\ \A t \in 0..(MaxTime + JWT_EXPIRES_IN + 1) :
                LET g == authMiddleware(Bearer(tok), t) IN
                /\ g.next <=> t < tok.exp
                /\ ~g.next => /\ g.status = 401
                              /\ g.error = "Token expired"
                              /\ g.expiredAt = tok.exp
    /\ (req.route \in ProtectedRoutes /\ req.header \in {Bearer(tok) : tok \in issued})
          => /\ res.next <=> now < req.header.parts[2].exp
             /\ ~res.next => res.error = "Token expired"

\* An issued token presented at the very instant of its expiry was rejected
C5_Witness ==
    \E tok \in issued :
        /\ req.route \in ProtectedRoutes
        /\ req.header = Bearer(tok)
        /\ now = tok.exp
        /\ res.error = "Token expired"

-----------------------------------------------------------------------------
(* C6: a token signed with a secret other than the gate's is rejected with  *)
(* 'Invalid token' whatever its claims (a correct identity, a future or a   *)
(* past expiry), and the protected handler does not run.                    *)
C6_WrongSecretRejected ==
    /\ \A u \in {"john_doe", "mallory"}, e \in 0..(MaxTime + 1), t \in 0..MaxTime :
          authMiddleware(Bearer(Jwt(u, 0, e, OtherSecret)), t) = Response(401, "Invalid token")
    /\ (req.route \in ProtectedRoutes /\ WellShaped(req.header)
          /\ req.header.parts[2].key # JWT_SECRET)
          => /\ res = Response(401, "Invalid token")
             /\ balance = req.before

C6_Witness ==
    /\ req.route = "withdraw"
    /\ req.header = Bearer(ForgedFresh)
    /\ now < ForgedFresh.exp
    /\ res.status = 401 /\ ~res.next

-----------------------------------------------------------------------------
(* C7: for every amount that is <= 0 or non-numeric, deposit and withdraw   *)
(* fail validation (400) and leave the balance unchanged.  Stated as the    *)
(* claim has it; the code breaks it.                                        *)
C7_InvalidAmountsRejected ==
    (OnAccount /\ (~Numeric(req.amount) \/ Leq(ValueOf(req.amount), Num(0))))
        => /\ res.status = 400
           /\ balance = req.before

-----------------------------------------------------------------------------
(* C8: deposit and withdraw fail with 'Amount must be a valid number',      *)
(* leaving the balance unchanged, for every amount that does not convert to *)
(* a finite number, +Infinity included; so the balance is always finite.    *)
(* Stated as the claim has it; the code breaks it.                          *)
C8_NonFiniteRejected ==
    /\ (OnAccount /\ ~AmountMissing(req.amount) /\ ~IsFinite(parseFloat(req.amount)))
          => /\ res.status = 400
             /\ res.error = "Amount must be a valid number"
             /\ balance = req.before
    /\ IsFinite(balance)

-----------------------------------------------------------------------------
(* C9: a successful deposit of an amount from balance b, immediately        *)
(* followed by a withdraw of the same amount, succeeds and returns the      *)
(* balance to exactly b.  Stated as the claim has it; the code breaks it.   *)
C9_RoundTrip ==
    [][ ( /\ req.route = "deposit" /\ res.status = 200
          /\ req'.route = "withdraw" /\ res'.next /\ UserFound(res'.user)
          /\ req'.amount = req.amount )
        => /\ res'.status = 200
           /\ balance' = req.before
      ]_vars

-----------------------------------------------------------------------------
(* C10: the balance changes only in a successful deposit or a successful    *)
(* withdraw; every other outcome of every request leaves it unchanged.      *)
C10_BalanceFrame ==
    [][ (balance' # balance) =>
            /\ req'.route \in LedgerWrites
            /\ req'.before = balance
            /\ res'.status = 200
            /\ res'.next
            /\ res'.balance = balance'
      ]_vars

\* A refused withdraw left a balance that earlier requests had changed
C10_Witness ==
    /\ req.route = "withdraw" /\ res.next /\ res.status = 400
    /\ balance = req.before
    /\ balance # Num(InitialBalance)

-----------------------------------------------------------------------------
(* Vocabulary of the login properties *)

\* A body field that is there and not empty
Given(f) == f.def /\ f.s # ""

\* The submitted pair is the principal record's
PrincipalPair(u, p) == u = Str("john_doe") /\ p = Str("password123")

-----------------------------------------------------------------------------
(* C11: a login with both fields present and a mismatch gets one and the    *)
(* same response, 401 'Invalid credentials' and nothing else in the body,   *)
(* whether the identity is unknown or the identity is known and the secret  *)
(* is wrong, at every clock value.                                          *)
C11_UndifferentiatedFailure ==
    /\ \A u \in UsernameInputs, p \in PasswordInputs, t \in 0..MaxTime :
          (Given(u) /\ Given(p) /\ ~PrincipalPair(u, p))
              => login(u, p, t) = Response(401, "Invalid credentials")
    /\ (req.route = "login" /\ Given(req.username) /\ Given(req.password)
          /\ ~PrincipalPair(req.username, req.password))
          => /\ res = Response(401, "Invalid credentials")
             /\ balance = req.before

\* An unknown identity with the principal's own secret was refused
C11_Witness ==
    /\ req.route = "login"
    /\ req.username = Str("mallory") /\ req.password = Str("password123")
    /\ res.status = 401

-----------------------------------------------------------------------------
(* C12: login returns a token if and only if identity and secret both equal *)
(* the principal record's; an absent or empty field fails with 400          *)
(* 'Username and password are required' whatever the other field holds, and *)
(* every other pair fails with 401 'Invalid credentials'.                   *)
C12_LoginDecision ==
    req.route = "login" =>
        /\ (res.token # NoToken) <=> PrincipalPair(req.username, req.password)
        /\ PrincipalPair(req.username, req.password) =>
              /\ res.status = 200
              /\ res.token = Jwt("john_doe", now, now + JWT_EXPIRES_IN, JWT_SECRET)
              /\ res.token \in issued
        /\ (~Given(req.username) \/ ~Given(req.password)) =>
              res = Response(400, "Username and password are required")
        /\ (Given(req.username) /\ Given(req.password)
              /\ ~PrincipalPair(req.username, req.password)) =>
              res = Response(401, "Invalid credentials")

C12_Witness ==
    /\ req.route = "login"
    /\ PrincipalPair(req.username, req.password)
    /\ res.status = 200 /\ res.token # NoToken

-----------------------------------------------------------------------------
(* Vocabulary of the gate properties *)

\* The header splits into exactly two parts, the first exactly "Bearer"
TwoPartBearer(h) == Len(h.parts) = 2 /\ h.parts[1] = Word("Bearer")

\* The header is the empty string
EmptyHeader(h) == h.present /\ h.parts = <<Word("")>>

\* The gate got as far as verifying a token
VerificationAttempted(r) ==
    r.next \/ r.error \in {"Invalid token", "Token expired", "Token verification failed"}

-----------------------------------------------------------------------------
-----------------------------------------------------------------------------
-----------------------------------------------------------------------------
(* C15: the identity carried by an issued token always has an account, so a *)
(* read, deposit or withdraw presenting a token the Issuer produced never   *)
(* answers 404 'User not found'.                                            *)
C15_IssuedTokenHasAccount ==
    /\ \A tok \in issued : UserFound(tok.username)
    /\ (req.route \in ProtectedRoutes /\ req.header \in {Bearer(tok) : tok \in issued})
          => /\ res.status # 404
             /\ res.error # "User not found"

\* A request with an issued token reached its handler and found the account
C15_Witness ==
    /\ req.route \in ProtectedRoutes
    /\ req.header \in {Bearer(tok) : tok \in issued}
    /\ res.next /\ res.status = 200

\* 'User not found' is reachable, with a token the Issuer did not produce
C15_NotFoundReachable ==
    /\ req.route \in ProtectedRoutes
    /\ res.status = 404 /\ res.error = "User not found"

-----------------------------------------------------------------------------
(* C16: a successful deposit of amount a from balance b stores and returns  *)
(* b + a, a successful withdraw stores and returns b - a, as sums of real   *)
(* numbers, and the balance in the response equals the stored balance.      *)
(* Stated as the claim has it; the code breaks it (see C7, C8, C9).         *)
ExactSum(x, y) == [kind |-> "fin", hi |-> x.hi + y.hi, lo |-> x.lo + y.lo]

C16_ExactUpdate ==
    (OnAccount /\ res.status = 200) =>
        /\ res.balance = balance
        /\ Numeric(req.amount)
        /\ IsFinite(req.before) /\ IsFinite(ValueOf(req.amount))
        /\ req.route = "deposit" => balance = ExactSum(req.before, ValueOf(req.amount))
        /\ req.route = "withdraw" => balance = ExactSum(req.before, Neg(ValueOf(req.amount)))

\* The documented run: 5000, deposit 1000 gives 6000, withdraw 500 gives 5500
C16_Scenario ==
    /\ req = [WithdrawRequest(req.header, JNum(Num(500))) EXCEPT !.before = Num(6000)]
    /\ res.status = 200 /\ res.balance = Num(5500) /\ balance = Num(5500)

\* The response of every successful update carries the stored balance
C16_ResponseIsStored == (OnAccount /\ res.status = 200) => res.balance = balance

-----------------------------------------------------------------------------
(* C17 (SpecConcFair): no operation blocks.  A request in flight can always *)
(* be dispatched, whatever the balance and whatever else is in flight, and  *)
(* every login, balance, deposit and withdraw request that is received is   *)
(* eventually answered.                                                     *)
C17_NoBlocking ==
    \A i \in 1..MaxInFlight : (inflight[i] # NoRequest) ~> (inflight[i] = NoRequest)

\* A request in flight can be dispatched in every state
C17_AlwaysDispatchable ==
    \A i \in 1..MaxInFlight : inflight[i] # NoRequest => ENABLED DispatchSlot(i)

\* A withdraw the balance did not cover has been answered while a deposit
\* that would have covered it is still in flight.
C17_Witness ==
    /\ req.route = "withdraw" /\ res.error = "Insufficient balance"
    /\ \E i \in 1..MaxInFlight :
          /\ inflight[i].route = "deposit"
          /\ Leq(req.amount.num, Add(balance, inflight[i].amount.num))

-----------------------------------------------------------------------------
(* Vocabulary of the verification outcomes *)

GateErrors == {"No token provided", "Invalid token format", "Invalid token", "Token expired"}

\* The token is signed with the shared secret and its not-before time is ahead of t
NotYetActive(tok, t) == tok.jwt /\ tok.key = JWT_SECRET /\ tok.nbf > t

\* The token is signed with the shared secret, active, and its expiry has passed at t
PastExpiry(tok, t) == tok.jwt /\ tok.key = JWT_SECRET /\ tok.nbf <= t /\ t >= tok.exp

-----------------------------------------------------------------------------
-----------------------------------------------------------------------------
(* C19: in deposit and withdraw the first failing check alone determines    *)
(* the error, in the order: account not found, amount missing, amount not   *)
(* numeric, amount <= 0, then (withdraw only) balance < amount; when no     *)
(* check fails the request succeeds.  Stated as the claim has it; the code  *)
(* breaks it (see C7).                                                      *)
C19_CheckOrder ==
    (req.route \in LedgerWrites /\ res.next) =>
        IF ~UserFound(res.user)
        THEN res.status = 404 /\ res.error = "User not found"
        ELSE IF AmountMissing(req.amount)
        THEN res.status = 400 /\ res.error = "Amount is required"
        ELSE IF ~Numeric(req.amount)
        THEN res.status = 400 /\ res.error = "Amount must be a valid number"
        ELSE IF Leq(ValueOf(req.amount), Num(0))
        THEN res.status = 400 /\ res.error = "Amount must be greater than 0"
        ELSE IF req.route = "withdraw" /\ Lt(req.before, ValueOf(req.amount))
        THEN res.status = 400 /\ res.error = "Insufficient balance"
        ELSE res.status = 200

\* A withdraw of a number <= 0 fails validation, never 'Insufficient balance'
C19_NonPositiveWithdraw ==
    (req.route = "withdraw" /\ res.next /\ UserFound(res.user)
       /\ Numeric(req.amount) /\ Leq(ValueOf(req.amount), Num(0)))
    => /\ res.status = 400
       /\ res.error = "Amount must be greater than 0"
       /\ balance = req.before

\* A withdraw of exactly the whole balance succeeds and leaves 0
C19_WholeBalance ==
    (req.route = "withdraw" /\ res.next /\ UserFound(res.user)
       /\ req.amount.type = "number" /\ IsFinite(req.before)
       /\ Lt(Num(0), req.before) /\ req.amount.num = req.before)
    => (res.status = 200 /\ balance = Num(0) /\ res.balance = Num(0))

C19_WholeBalanceReached ==
    /\ req.route = "withdraw" /\ req.amount.type = "number"
    /\ req.amount.num = req.before /\ balance = Num(0)

\* The check order holds for every amount that is a number or a numeral
C19_CheckOrderOfNumerals ==
    (req.route \in LedgerWrites /\ res.next
       /\ (AmountMissing(req.amount) \/ Numeric(req.amount)))
    => C19_CheckOrder

-----------------------------------------------------------------------------
(* C20: for every header and time the gate does exactly one of two things:  *)
(* it forwards to the handler with the token's claims as the request's user *)
(* and sends nothing itself, or it sends one 401 error response and does    *)
(* not forward.  So each request to a protected route gets one response:    *)
(* the gate's, with the balance untouched, or the handler's.                *)
C20_ForwardXorReject ==
    /\ \A h \in HeaderInputs(issued), t \in 0..MaxTime :
          LET g == authMiddleware(h, t) IN
          \/ /\ g.next /\ g.status = 0 /\ g.error = ""
             /\ g.user = h.parts[2].username
          \/ /\ ~g.next /\ g.status = 401 /\ g.error # ""
             /\ g.user = ""
    /\ req.route \in ProtectedRoutes =>
          /\ res.status # 0
          /\ res.next => (res.user = req.header.parts[2].username /\ res.status # 401)
          /\ ~res.next => (res.status = 401 /\ res.user = "" /\ balance = req.before)

\* Both outcomes seen on one route: this request was rejected by the gate
\* after the balance had been changed by a forwarded one.
C20_Witness ==
    /\ req.route = "deposit" /\ ~res.next /\ res.status = 401
    /\ balance # Num(InitialBalance)

====
